---- MODULE Spec2Model ----
(***************************************************************************)
(* Ticket assignment system: the storage facade (DatabaseStorage in       *)
(* server/storage.ts, and the in-memory MemStorage variant), the scorer    *)
(* findBestTeamMember and the request handlers of server/routes.ts.        *)
(*                                                                         *)
(* Representation.  An optional id or timestamp that is null/undefined is  *)
(* 0 (every JavaScript test of these fields in the source is a truthiness  *)
(* test, and 0, null and undefined are all falsy); the clock starts at 1.  *)
(* The ticket fields title, description, deadline and priority are opaque  *)
(* payload that no handler ever reads; they are left out of the record.    *)
(*                                                                         *)
(* A storage method is an operator from a store record S (the tables, and  *)
(* the number of persistence writes that will still succeed) to a result   *)
(* [st, ret]; a request handler is an action that applies the methods it   *)
(* calls, in order, and publishes the resulting tables.                    *)
(***************************************************************************)
EXTENDS Integers, Sequences, FiniteSets, TLC

(* ---------------------------- bounds ---------------------------------- *)
MaxTickets == 2          \* tickets ever created (ticket ids 1..MaxTickets)
MaxLogs == 4             \* activity-log rows ever appended
MaxClock == 2            \* the clock takes the values 1..MaxClock
MaxSkillsLen == 3        \* length of a required-skills list given to the scorer
MaxWorkload == 2         \* per-member active-ticket count given to the scorer
MaxFailAt == 3           \* a failing request fails at its 1st..(MaxFailAt+1)th write
MaxFailures == 1         \* failed writes after which a run is no longer followed

(* --------------------------- constants -------------------------------- *)
NoFail == MaxFailAt + 1  \* "no write of this request fails"

availableSkills == <<"Frontend", "Backend", "Database", "Design">>

initialTeamMembers ==
  << [id |-> 1, name |-> "John Doe",     skills |-> <<"Frontend", "Design">>],
     [id |-> 2, name |-> "Jane Smith",   skills |-> <<"Backend", "Database">>],
     [id |-> 3, name |-> "Alex Johnson", skills |-> <<"Frontend", "Backend">>],
     [id |-> 4, name |-> "Sam Williams", skills |-> <<"Design", "Database">>],
     [id |-> 5, name |-> "Taylor Green", skills |-> <<"Frontend", "Backend", "Database">>] >>

\* a member id that resolves to no team member
UnknownMember == Len(initialTeamMembers) + 1

Range(s) == { s[i] : i \in 1..Len(s) }

\* mutant of getTeamMembers: the members enumerated newest first
getTeamMembers_reversed ==
  [ i \in 1..Len(initialTeamMembers) |-> initialTeamMembers[Len(initialTeamMembers) + 1 - i] ]

\* getTeamMembers(): the members in enumeration (creation) order
getTeamMembers == initialTeamMembers

MemberIds == { getTeamMembers[i].id : i \in 1..Len(getTeamMembers) }

\* getTeamMember(id); only applied to ids in MemberIds
getTeamMember(id) == getTeamMembers[CHOOSE i \in 1..Len(getTeamMembers) : getTeamMembers[i].id = id]

\* skill tags a request may carry: the vocabulary and one tag no member has
SkillTags == Range(availableSkills) \cup {"DevOps"}

\* required-skills lists carried by create and update requests
SkillLists == { <<>>, <<"Backend", "Database">>, <<"DevOps">> }

\* member ids carried by requests (0: none given)
RequestMemberIds == {0, 2, UnknownMember}

VARIABLES
  impl,              \* "db": DatabaseStorage, "mem": MemStorage
  tickets,           \* the tickets table: ticket id -> row
  ticketCurrentId,   \* next ticket id (serial / ticketCurrentId)
  activityLogs,      \* the activity_logs table in insertion order
  now,               \* the clock read by new Date()
  last,              \* the last request handled and its outcome
  failures,          \* requests so far in which a write was made to fail
  requiredSkills,    \* scorer harness: the list handed to the scorer
  workloads,         \* scorer harness: per-member active-ticket count
  bestMember,        \* scorer harness: the id returned (0: undefined, -1: not run)
  matchCounts,       \* scorer harness: matchingSkills.length per member
  inflight,          \* requests being handled at the same time, with their positions
  snapshot           \* the tables when those requests arrived

vars == <<impl, tickets, ticketCurrentId, activityLogs, now, last, failures,
          requiredSkills, workloads, bestMember, matchCounts, inflight, snapshot>>

storeVars == <<impl, tickets, ticketCurrentId, activityLogs, now, last, failures>>
scorerVars == <<requiredSkills, workloads, bestMember, matchCounts>>
concVars == <<inflight, snapshot>>

(* ----------------------------- scorer --------------------------------- *)

\* the rows findBestTeamMember counts.  DatabaseStorage passes the
\* JavaScript booleans (tickets.status !== "completed") and
\* (tickets.assignedTo !== null) to and(): both compare a column object with a
\* constant and are true, so the WHERE clause selects every row.
assignedTickets(tk) ==
  IF impl = "db" THEN DOMAIN tk
  ELSE { i \in DOMAIN tk : tk[i].status # "completed" }

\* the Map assignedTicketCount, read as assignedTicketCount.get(id) || 0
assignedTicketCount(tk) ==
  [ m \in MemberIds |->
      Cardinality({ i \in assignedTickets(tk) : tk[i].assignedTo # 0 /\ tk[i].assignedTo = m }) ]

\* requiredSkills.filter(skill => member.skills.includes(skill))
matchingSkills(member, required) ==
  SelectSeq(required, LAMBDA skill : skill \in Range(member.skills))

(* IEEE-754 double arithmetic, as far as the scorer uses it.  A double is  *)
(* [s, e, hi, mid, lo]: sign s (0 for zero, -1 only for the constant -1),  *)
(* exponent e and the 52 fraction bits in three limbs of 18, 18 and 16     *)
(* bits: the value is (1 + (hi * 2^34 + mid * 2^16 + lo) / 2^52) * 2^e.    *)

B18 == 262144     \* 2^18
B17 == 131072     \* 2^17
B16 == 65536      \* 2^16

dZero == [s |-> 0, e |-> 0, hi |-> 0, mid |-> 0, lo |-> 0]
dMinusOne == [s |-> -1, e |-> 0, hi |-> 0, mid |-> 0, lo |-> 0]

RECURSIVE Pow2(_)
Pow2(n) == IF n = 0 THEN 1 ELSE 2 * Pow2(n - 1)

\* the largest t with 2^t <= n, for n >= 1
RECURSIVE Log2(_)
Log2(n) == IF n < 2 THEN 0 ELSE 1 + Log2(n \div 2)

\* the least k with 2^k >= d, for d >= 1
RECURSIVE LeadingShift(_, _)
LeadingShift(r, d) == IF r >= d THEN 0 ELSE 1 + LeadingShift(2 * r, d)

\* the fraction plus one unit in the last place; the carry out of the top
\* makes the next power of two
dNextUp(e, hi, mid, lo) ==
  IF lo + 1 < B16 THEN [s |-> 1, e |-> e, hi |-> hi, mid |-> mid, lo |-> lo + 1]
  ELSE IF mid + 1 < B18 THEN [s |-> 1, e |-> e, hi |-> hi, mid |-> mid + 1, lo |-> 0]
  ELSE IF hi + 1 < B18 THEN [s |-> 1, e |-> e, hi |-> hi + 1, mid |-> 0, lo |-> 0]
  ELSE [s |-> 1, e |-> e + 1, hi |-> 0, mid |-> 0, lo |-> 0]

\* round to nearest, ties to even: up says the dropped part is above one half
\* unit in the last place, tie that it is exactly one half
dRound(e, hi, mid, lo, up, tie) ==
  IF up \/ (tie /\ lo % 2 = 1) THEN dNextUp(e, hi, mid, lo)
  ELSE [s |-> 1, e |-> e, hi |-> hi, mid |-> mid, lo |-> lo]

\* 1 / d in double arithmetic, d a positive integer below 2^13
\* (workloadFactor): long division of 2^k by d, 18 + 18 + 17 quotient bits
\* after the leading 1, the last of them being the rounding bit
dReciprocal(d) ==
  LET k == LeadingShift(1, d)
      r0 == Pow2(k) - d
      c1 == (r0 * B18) \div d
      r1 == (r0 * B18) % d
      c2 == (r1 * B18) \div d
      r2 == (r1 * B18) % d
      c3 == (r2 * B17) \div d
      r3 == (r2 * B17) % d
  IN dRound(0 - k, c1, c2, c3 \div 2, c3 % 2 = 1 /\ r3 # 0, c3 % 2 = 1 /\ r3 = 0)

\* n * x in double arithmetic, n an integer in 0..1023, x zero or positive
\* (score): the exact product limb by limb, then shifted right by the t bits
\* by which it outgrew the significand and rounded
dTimes(n, x) ==
  IF n = 0 \/ x.s = 0 THEN dZero
  ELSE LET plo == x.lo * n
           pmid == x.mid * n + (plo \div B16)
           phi == x.hi * n + (pmid \div B18)
           ptop == n + (phi \div B18)
           t == Log2(ptop)
           p == Pow2(t)
           hi == ((ptop % p) * B18 + (phi % B18)) \div p
           mid == ((phi % p) * B18 + (pmid % B18)) \div p
           lo == ((pmid % p) * B16 + (plo % B16)) \div p
           dropped == (plo % B16) % p
       IN IF t = 0 THEN [s |-> 1, e |-> x.e, hi |-> hi, mid |-> mid, lo |-> lo]
          ELSE dRound(x.e + t, hi, mid, lo, 2 * dropped > p, 2 * dropped = p)

\* x < y for doubles of which at most one is negative
dLess(x, y) ==
  IF x.s # 1 \/ y.s # 1 THEN x.s < y.s
  ELSE \/ x.e < y.e
       \/ x.e = y.e /\ x.hi < y.hi
       \/ x.e = y.e /\ x.hi = y.hi /\ x.mid < y.mid
       \/ x.e = y.e /\ x.hi = y.hi /\ x.mid = y.mid /\ x.lo < y.lo

\* const score = matchingSkills.length * (1 / (workload + 1))
score(matches, workload) == dTimes(matches, dReciprocal(workload + 1))

\* score > bestScore, on doubles
scoreGreater(newScore, bestScore) == dLess(bestScore, newScore)

\* mutant of scoreMembers: a member without a matching skill is scored too
RECURSIVE scoreMembers_noSkip(_, _, _, _)
scoreMembers_noSkip(i, required, count, best) ==
  IF i > Len(getTeamMembers) THEN best.id
  ELSE LET member == getTeamMembers[i]
           matches == Len(matchingSkills(member, required))
           workload == count[member.id]
       IN IF scoreGreater(score(matches, workload), best.score)
          THEN scoreMembers_noSkip(i + 1, required, count,
                                   [id |-> member.id, score |-> score(matches, workload)])
          ELSE scoreMembers_noSkip(i + 1, required, count, best)

\* the scoring loop from member i on; best is (bestMember, bestScore)
RECURSIVE scoreMembers(_, _, _, _)
scoreMembers(i, required, count, best) ==
  IF i > Len(getTeamMembers) THEN best.id
  ELSE LET member == getTeamMembers[i]
           matches == Len(matchingSkills(member, required))
           workload == count[member.id]
       IN IF matches = 0 THEN scoreMembers(i + 1, required, count, best)
          ELSE IF scoreGreater(score(matches, workload), best.score)
               THEN scoreMembers(i + 1, required, count,
                                 [id |-> member.id, score |-> score(matches, workload)])
               ELSE scoreMembers(i + 1, required, count, best)

\* the scorer on a given count map; 0 is "undefined"
bestTeamMember(required, count) ==
  IF Len(required) = 0 THEN 0
  ELSE scoreMembers(1, required, count, [id |-> 0, score |-> dMinusOne])

findBestTeamMember(tk, required) == bestTeamMember(required, assignedTicketCount(tk))

(* ------------------------- storage methods ---------------------------- *)

NoTicket == [id |-> 0, skills |-> <<>>, status |-> "none", assignedTo |-> 0,
             assignedAt |-> 0, completedAt |-> 0, createdAt |-> 0]

Store(fuel) == [tickets |-> tickets, ticketCurrentId |-> ticketCurrentId,
                activityLogs |-> activityLogs, fuel |-> fuel, raised |-> FALSE]

\* one persistence write: S2 is S after the write.  Nothing runs after a
\* raise; a write raises when no successful write is left for this request.
dbWrite(S, S2) ==
  IF S.raised THEN S
  ELSE IF S.fuel = 0 THEN [S EXCEPT !.raised = TRUE]
  ELSE IF S.fuel = NoFail THEN S2
  ELSE [S2 EXCEPT !.fuel = S.fuel - 1]

Returned(S, t) == [st |-> S, ret |-> [kind |-> IF S.raised THEN "raised" ELSE "ticket", ticket |-> IF S.raised THEN NoTicket ELSE t]]
Undefined(S) == [st |-> S, ret |-> [kind |-> "undefined", ticket |-> NoTicket]]
Boolean(S, b) == [st |-> S, ret |-> [kind |-> IF S.raised THEN "raised" ELSE IF b THEN "true" ELSE "false", ticket |-> NoTicket]]

\* .sort((a, b) => b.timestamp - a.timestamp) / ORDER BY timestamp DESC: newest
\* first, rows of one timestamp in insertion order
insertByTimestampDesc(sorted, row) ==
  LET p == Cardinality({ k \in 1..Len(sorted) : sorted[k].timestamp >= row.timestamp })
  IN SubSeq(sorted, 1, p) \o <<row>> \o SubSeq(sorted, p + 1, Len(sorted))

RECURSIVE sortByTimestampDesc(_)
sortByTimestampDesc(rows) ==
  IF rows = <<>> THEN <<>>
  ELSE insertByTimestampDesc(sortByTimestampDesc(SubSeq(rows, 1, Len(rows) - 1)),
                             rows[Len(rows)])

\* getActivityLogs(ticketId)
getActivityLogs(logs, ticketId) ==
  sortByTimestampDesc(SelectSeq(logs, LAMBDA log : log.ticketId = ticketId))

\* the orders in which getActivityLogs(ticketId) can return the rows: the
\* stable sort of MemStorage keeps rows of one timestamp in insertion order;
\* ORDER BY timestamp DESC of DatabaseStorage leaves their order open
getActivityLogsOrders(logs, ticketId) ==
  LET rows == SelectSeq(logs, LAMBDA log : log.ticketId = ticketId)
      n == Len(rows)
      newestFirst == { f \in [1..n -> 1..n] :
                         /\ \A i, j \in 1..n : i # j => f[i] # f[j]
                         /\ \A i \in 1..(n - 1) :
                              rows[f[i]].timestamp >= rows[f[i + 1]].timestamp }
  IN IF impl = "mem" THEN { getActivityLogs(logs, ticketId) }
     ELSE { [i \in 1..n |-> rows[f[i]]] : f \in newestFirst }

\* mutant of addActivityLog: one row is kept per ticket, the new row replacing
\* the ticket's earlier ones
addActivityLog_perTicket(S, ticketId, action, details) ==
  dbWrite(S, [S EXCEPT !.activityLogs =
                Append(SelectSeq(@, LAMBDA log : log.ticketId # ticketId),
                       [id |-> Len(@) + 1, ticketId |-> ticketId, action |-> action,
                        timestamp |-> now, details |-> details])])

addActivityLog(S, ticketId, action, details) ==
  dbWrite(S, [S EXCEPT !.activityLogs =
                Append(@, [id |-> Len(@) + 1, ticketId |-> ticketId, action |-> action,
                           timestamp |-> now, details |-> details])])

\* mutant of assignTicket: the member is not looked up
assignTicket_noMemberCheck(S, ticketId, memberIdArg) ==
  IF ticketId \notin DOMAIN S.tickets THEN Undefined(S)
  ELSE LET ticket == S.tickets[ticketId]
           memberId == IF memberIdArg = 0
                       THEN findBestTeamMember(S.tickets, ticket.skills)
                       ELSE memberIdArg
       IN IF memberId = 0 THEN Returned(S, ticket)
          ELSE LET S1 == dbWrite(S, [S EXCEPT !.tickets[ticketId] =
                            [@ EXCEPT !.assignedTo = memberId, !.assignedAt = now,
                                      !.status = "assigned"]])
                   S2 == addActivityLog(S1, ticketId, "assigned",
                            [memberId |-> memberId,
                             memberName |-> IF memberId \in MemberIds
                                            THEN getTeamMember(memberId).name ELSE ""])
               IN Returned(S2, S1.tickets[ticketId])

\* mutant of assignTicket: only a pending ticket is assigned
assignTicket_pendingOnly(S, ticketId, memberIdArg) ==
  IF ticketId \notin DOMAIN S.tickets THEN Undefined(S)
  ELSE LET ticket == S.tickets[ticketId]
           memberId == IF memberIdArg = 0
                       THEN findBestTeamMember(S.tickets, ticket.skills)
                       ELSE memberIdArg
       IN IF memberId = 0 THEN Returned(S, ticket)
          ELSE IF memberId \notin MemberIds THEN Returned(S, ticket)
          ELSE IF ticket.status # "pending" THEN Returned(S, ticket)
          ELSE LET member == getTeamMember(memberId)
                   S1 == dbWrite(S, [S EXCEPT !.tickets[ticketId] =
                            [@ EXCEPT !.assignedTo = memberId, !.assignedAt = now,
                                      !.status = "assigned"]])
                   S2 == addActivityLog(S1, ticketId, "assigned",
                            [memberId |-> memberId, memberName |-> member.name])
               IN Returned(S2, S1.tickets[ticketId])

assignTicket(S, ticketId, memberIdArg) ==
  IF ticketId \notin DOMAIN S.tickets THEN Undefined(S)
  ELSE LET ticket == S.tickets[ticketId]
           memberId == IF memberIdArg = 0
                       THEN findBestTeamMember(S.tickets, ticket.skills)
                       ELSE memberIdArg
       IN IF memberId = 0 THEN Returned(S, ticket)
          ELSE IF memberId \notin MemberIds THEN Returned(S, ticket)
          ELSE LET member == getTeamMember(memberId)
                   S1 == dbWrite(S, [S EXCEPT !.tickets[ticketId] =
                            [@ EXCEPT !.assignedTo = memberId, !.assignedAt = now,
                                      !.status = "assigned"]])
                   S2 == addActivityLog(S1, ticketId, "assigned",
                            [memberId |-> memberId, memberName |-> member.name])
               IN Returned(S2, S1.tickets[ticketId])

createTicket(S, ticket) ==
  LET id == S.ticketCurrentId
      newTicket == [id |-> id, skills |-> ticket.skills, status |-> "pending",
                    assignedTo |-> ticket.assignedTo,
                    assignedAt |-> IF ticket.assignedTo # 0 THEN now ELSE 0,
                    completedAt |-> 0, createdAt |-> now]
      S1 == dbWrite(S, [S EXCEPT !.ticketCurrentId = id + 1,
                                 !.tickets = [i \in DOMAIN @ \cup {id} |->
                                                IF i = id THEN newTicket ELSE @[i]]])
      S2 == addActivityLog(S1, id, "created", [ticket |-> newTicket])
  IN IF S2.raised THEN Returned(S2, newTicket)
     ELSE IF ticket.assignedTo # 0 THEN assignTicket(S2, id, ticket.assignedTo)
     ELSE Returned(S2, newTicket)

\* { ...ticket, ...updates } / UPDATE ... SET updates
applyUpdates(ticket, updates) ==
  [ f \in DOMAIN ticket |-> IF f \in DOMAIN updates THEN updates[f] ELSE ticket[f] ]

\* mutant of updateTicket: the update is not logged
updateTicket_noLog(S, id, updates) ==
  IF id \notin DOMAIN S.tickets THEN Undefined(S)
  ELSE IF impl = "db" /\ DOMAIN updates = {}
       THEN Returned([S EXCEPT !.raised = TRUE], NoTicket)
  ELSE LET S1 == dbWrite(S, [S EXCEPT !.tickets[id] = applyUpdates(@, updates)])
       IN Returned(S1, S1.tickets[id])

updateTicket(S, id, updates) ==
  IF id \notin DOMAIN S.tickets THEN Undefined(S)
  ELSE IF impl = "db" /\ DOMAIN updates = {}
       THEN Returned([S EXCEPT !.raised = TRUE], NoTicket)   \* .set({}) throws
  ELSE LET S1 == dbWrite(S, [S EXCEPT !.tickets[id] = applyUpdates(@, updates)])
           S2 == addActivityLog(S1, id, "updated", [updates |-> updates])
       IN Returned(S2, S1.tickets[id])

\* getTickets(): the rows of the tickets table
getTickets(tk) == { tk[i] : i \in DOMAIN tk }

\* getTicket(id); NoTicket is "undefined"
getTicket(tk, id) == IF id \in DOMAIN tk THEN tk[id] ELSE NoTicket

\* mutant of deleteTicket: the row is logged as deleted and kept
deleteTicket_keepsRow(S, id) ==
  IF id \notin DOMAIN S.tickets THEN Boolean(S, FALSE)
  ELSE Boolean(addActivityLog(S, id, "deleted", [ticketId |-> id]), TRUE)

\* mutant of deleteTicket: the "deleted" row is appended whether or not a
\* ticket was removed
deleteTicket_logsAlways(S, id) ==
  LET S1 == IF id \in DOMAIN S.tickets
            THEN dbWrite(S, [S EXCEPT !.tickets = [i \in DOMAIN @ \ {id} |-> @[i]]])
            ELSE S
      S2 == addActivityLog(S1, id, "deleted", [ticketId |-> id])
  IN Boolean(S2, id \in DOMAIN S.tickets)

deleteTicket(S, id) ==
  IF id \notin DOMAIN S.tickets THEN Boolean(S, FALSE)
  ELSE LET S1 == dbWrite(S, [S EXCEPT !.tickets = [i \in DOMAIN @ \ {id} |-> @[i]]])
           S2 == addActivityLog(S1, id, "deleted", [ticketId |-> id])
       IN Boolean(S2, TRUE)

\* mutant of completeTicket: the status is written without completedAt
completeTicket_noCompletedAt(S, ticketId) ==
  IF ticketId \notin DOMAIN S.tickets THEN Undefined(S)
  ELSE LET ticket == S.tickets[ticketId]
           S1 == dbWrite(S, [S EXCEPT !.tickets[ticketId] = [@ EXCEPT !.status = "completed"]])
           S2 == addActivityLog(S1, ticketId, "completed",
                    [completedAt |-> now, completedBy |-> "Unknown"])
       IN Returned(S2, S1.tickets[ticketId])

\* mutant of completeTicket: a ticket nobody is assigned to is not completed
completeTicket_assignedOnly(S, ticketId) ==
  IF ticketId \notin DOMAIN S.tickets THEN Undefined(S)
  ELSE LET ticket == S.tickets[ticketId]
           S1 == dbWrite(S, [S EXCEPT !.tickets[ticketId] =
                    [@ EXCEPT !.completedAt = now, !.status = "completed"]])
           completedBy == IF ticket.assignedTo # 0 /\ ticket.assignedTo \in MemberIds
                          THEN getTeamMember(ticket.assignedTo).name
                          ELSE "Unknown"
           S2 == addActivityLog(S1, ticketId, "completed",
                    [completedAt |-> now, completedBy |-> completedBy])
       IN IF ticket.assignedTo = 0 THEN Returned(S, ticket)
          ELSE Returned(S2, S1.tickets[ticketId])

\* mutant of completeTicket: completing a ticket also takes it from its
\* assignee
completeTicket_unassigns(S, ticketId) ==
  IF ticketId \notin DOMAIN S.tickets THEN Undefined(S)
  ELSE LET ticket == S.tickets[ticketId]
           S1 == dbWrite(S, [S EXCEPT !.tickets[ticketId] =
                    [@ EXCEPT !.completedAt = now, !.status = "completed",
                              !.assignedTo = 0, !.assignedAt = 0]])
           completedBy == IF ticket.assignedTo # 0 /\ ticket.assignedTo \in MemberIds
                          THEN getTeamMember(ticket.assignedTo).name
                          ELSE "Unknown"
           S2 == addActivityLog(S1, ticketId, "completed",
                    [completedAt |-> now, completedBy |-> completedBy])
       IN Returned(S2, S1.tickets[ticketId])

completeTicket(S, ticketId) ==
  IF ticketId \notin DOMAIN S.tickets THEN Undefined(S)
  ELSE LET ticket == S.tickets[ticketId]
           S1 == dbWrite(S, [S EXCEPT !.tickets[ticketId] =
                    [@ EXCEPT !.completedAt = now, !.status = "completed"]])
           completedBy == IF ticket.assignedTo # 0 /\ ticket.assignedTo \in MemberIds
                          THEN getTeamMember(ticket.assignedTo).name
                          ELSE "Unknown"
           S2 == addActivityLog(S1, ticketId, "completed",
                    [completedAt |-> now, completedBy |-> completedBy])
       IN Returned(S2, S1.tickets[ticketId])

\* mutant of reopenTicket: the reopened ticket is always pending
reopenTicket_alwaysPending(S, ticketId) ==
  IF ticketId \notin DOMAIN S.tickets THEN Undefined(S)
  ELSE LET ticket == S.tickets[ticketId]
           S1 == dbWrite(S, [S EXCEPT !.tickets[ticketId] =
                    [@ EXCEPT !.completedAt = 0, !.status = "pending"]])
           S2 == addActivityLog(S1, ticketId, "reopened", [previousStatus |-> ticket.status])
       IN Returned(S2, S1.tickets[ticketId])

reopenTicket(S, ticketId) ==
  IF ticketId \notin DOMAIN S.tickets THEN Undefined(S)
  ELSE LET ticket == S.tickets[ticketId]
           S1 == dbWrite(S, [S EXCEPT !.tickets[ticketId] =
                    [@ EXCEPT !.completedAt = 0,
                              !.status = IF ticket.assignedTo # 0 THEN "assigned" ELSE "pending"]])
           S2 == addActivityLog(S1, ticketId, "reopened", [previousStatus |-> ticket.status])
       IN Returned(S2, S1.tickets[ticketId])

(* ------------------------- request handlers --------------------------- *)

\* the tables after a request, and the record of the request; a request is
\* taken only while the bounded log has room for the two rows it can append;
\* here it is handled from its first read to its return with no other
\* request in between
Publish(r, op, ticketId, memberId, skills, updates) ==
  /\ Len(activityLogs) + 2 <= MaxLogs
  /\ inflight = <<>>
  /\ tickets' = r.st.tickets
  /\ ticketCurrentId' = r.st.ticketCurrentId
  /\ activityLogs' = r.st.activityLogs
  /\ last' = [op |-> op, ticketId |-> ticketId, memberId |-> memberId,
              skills |-> skills, updates |-> updates, ret |-> r.ret]
  /\ failures' = IF r.st.raised /\ r.st.fuel = 0 THEN failures + 1 ELSE failures
  /\ UNCHANGED <<impl, now>> /\ UNCHANGED scorerVars /\ UNCHANGED concVars

\* writes fail only against the database; a run is followed up to its
\* MaxFailures-th failed write
CanFail(fuel) == failures < MaxFailures /\ (fuel = NoFail \/ impl = "db")

\* POST /api/tickets
PostTicket(skills, assignedTo, fuel) ==
  /\ CanFail(fuel)
  /\ ticketCurrentId <= MaxTickets
  /\ LET c == createTicket(Store(fuel), [skills |-> skills, assignedTo |-> assignedTo])
         r == IF c.ret.kind = "raised" THEN c
              ELSE IF assignedTo = 0 /\ Len(skills) > 0
                   THEN LET a == assignTicket(c.st, c.ret.ticket.id, 0)
                        IN IF a.ret.kind = "undefined" THEN [st |-> a.st, ret |-> c.ret] ELSE a
                   ELSE c
     IN Publish(r, "create", ticketCurrentId, assignedTo, skills, <<>>)

\* mutant of Updates: the request body reaches updateTicket as it was sent,
\* createdAt included
Updates_unvalidated ==
  { <<>> } \cup { [skills |-> s] : s \in SkillLists }
           \cup { [assignedTo |-> m] : m \in RequestMemberIds }
           \cup { [createdAt |-> 0] }

\* the bodies insertTicketSchema.partial() accepts
Updates ==
  { <<>> } \cup { [skills |-> s] : s \in SkillLists }
           \cup { [assignedTo |-> m] : m \in RequestMemberIds }

\* PATCH /api/tickets/:id
PatchTicket(id, updates, fuel) ==
  /\ CanFail(fuel)
  /\ LET r == IF id \notin DOMAIN tickets THEN Undefined(Store(fuel))
              ELSE updateTicket(Store(fuel), id, updates)
     IN Publish(r, "update", id, 0, <<>>, updates)

\* DELETE /api/tickets/:id
DeleteTicket(id, fuel) ==
  /\ CanFail(fuel)
  /\ Publish(deleteTicket(Store(fuel), id), "delete", id, 0, <<>>, <<>>)

\* POST /api/tickets/:id/assign
PostAssign(id, memberId, fuel) ==
  /\ CanFail(fuel)
  /\ Publish(assignTicket(Store(fuel), id, memberId), "assign", id, memberId, <<>>, <<>>)

\* POST /api/tickets/:id/complete
PostComplete(id, fuel) ==
  /\ CanFail(fuel)
  /\ Publish(completeTicket(Store(fuel), id), "complete", id, 0, <<>>, <<>>)

\* POST /api/tickets/:id/reopen
PostReopen(id, fuel) ==
  /\ CanFail(fuel)
  /\ Publish(reopenTicket(Store(fuel), id), "reopen", id, 0, <<>>, <<>>)

\* time passes between two requests
Tick ==
  /\ now < MaxClock
  /\ now' = now + 1
  /\ UNCHANGED <<impl, tickets, ticketCurrentId, activityLogs, last, failures>>
  /\ UNCHANGED scorerVars /\ UNCHANGED concVars

TicketIds == 1..MaxTickets

\* the tables remembered while no requests are being handled together
NoSnapshot == [tickets |-> <<>>, activityLogs |-> <<>>]

NoRequest == [op |-> "none", ticketId |-> 0, memberId |-> 0, skills |-> <<>>,
              updates |-> <<>>, ret |-> [kind |-> "undefined", ticket |-> NoTicket]]

Init ==
  /\ impl \in {"db", "mem"}
  /\ tickets = <<>>
  /\ ticketCurrentId = 1
  /\ activityLogs = <<>>
  /\ now = 1
  /\ last = NoRequest
  /\ failures = 0
  /\ requiredSkills = <<>>
  /\ workloads = [m \in MemberIds |-> 0]
  /\ bestMember = -1
  /\ matchCounts = [m \in MemberIds |-> 0]
  /\ inflight = <<>>
  /\ snapshot = NoSnapshot

Requests(fuels) ==
  \/ \E s \in SkillLists, m \in RequestMemberIds, k \in fuels : PostTicket(s, m, k)
  \/ \E id \in TicketIds, u \in Updates, k \in fuels : PatchTicket(id, u, k)
  \/ \E id \in TicketIds, k \in fuels : DeleteTicket(id, k)
  \/ \E id \in TicketIds, m \in RequestMemberIds, k \in fuels : PostAssign(id, m, k)
  \/ \E id \in TicketIds, k \in fuels : PostComplete(id, k)
  \/ \E id \in TicketIds, k \in fuels : PostReopen(id, k)

\* requests handled one at a time, every write succeeding
Next == Requests({NoFail})

Spec == Init /\ [][Next]_vars

\* requests handled one at a time; a request against the database may have
\* one of its writes raise
NextFail == Requests((0..MaxFailAt) \cup {NoFail})

SpecFail == Init /\ [][NextFail]_vars

\* requests and the passage of time
NextClock == Next \/ Tick

SpecClock == Init /\ [][NextClock]_vars

(* -------------------------- scorer harness ---------------------------- *)

\* the required-skills lists the request validation accepts (any array of
\* strings, repeated tags included), up to MaxSkillsLen entries
SkillSeqs == UNION { [1..n -> SkillTags] : n \in 0..MaxSkillsLen }

\* workloads at which the double score of an exact tie is not a tie:
\* 3 * (1 / 105) > 1 * (1 / 35)
LargeWorkloads == {34, 104}

\* the workload distributions handed to the scorer: every one with small
\* counts, and every one over the large counts
WorkloadMaps == [MemberIds -> 0..MaxWorkload] \cup [MemberIds -> LargeWorkloads]

InitScorer ==
  /\ impl = "mem"
  /\ tickets = <<>>
  /\ ticketCurrentId = 1
  /\ activityLogs = <<>>
  /\ now = 1
  /\ last = NoRequest
  /\ failures = 0
  /\ requiredSkills \in SkillSeqs
  /\ workloads \in WorkloadMaps
  /\ bestMember = -1
  /\ matchCounts = [m \in MemberIds |-> 0]
  /\ inflight = <<>>
  /\ snapshot = NoSnapshot

\* one call of the scoring part of findBestTeamMember
RunScorer ==
  /\ bestMember = -1
  /\ bestMember' = bestTeamMember(requiredSkills, workloads)
  /\ matchCounts' = [m \in MemberIds |-> Len(matchingSkills(getTeamMember(m), requiredSkills))]
  /\ UNCHANGED <<requiredSkills, workloads>>
  /\ UNCHANGED storeVars /\ UNCHANGED concVars

NextScorer == RunScorer

SpecScorer == InitScorer /\ [][NextScorer]_vars

(* ----------------- requests handled at the same time ------------------ *)

\* Each request handler is an async function: it runs until its next awaited
\* query and then yields, and the handler of another request may run before
\* it resumes.  A request in flight is the handler's arguments, the position
\* it has reached (pc) and the locals it carries across its awaits: the
\* ticket row it read (ticket) and the member it settled on (member).


Request(op, ticketId, memberId, updates) ==
  [op |-> op, ticketId |-> ticketId, memberId |-> memberId, updates |-> updates,
   pc |-> "start", ticket |-> NoTicket, member |-> 0]

\* the requests that change an existing ticket: an assignment with no member
\* named and one to Jane Smith, and a PATCH that clears the assignee
TicketRequests(id) ==
  << Request("assign", id, 0, <<>>), Request("assign", id, 2, <<>>),
     Request("complete", id, 0, <<>>), Request("reopen", id, 0, <<>>),
     Request("delete", id, 0, <<>>), Request("update", id, 0, [assignedTo |-> 0]) >>

\* the handler has returned
Finish(q) == [q EXCEPT !.pc = "done", !.ticket = NoTicket, !.member = 0]

\* the handler yields at its next await, at position pc
Await(q, S, pc) == [q |-> [q EXCEPT !.pc = pc], st |-> S]

\* DatabaseStorage.assignTicket, from one await to the next
assignTicketStep(q, S) ==
  LET id == q.ticketId
  IN CASE q.pc = "start" ->                       \* select the ticket
            IF id \notin DOMAIN S.tickets THEN Await(Finish(q), S, "done")
            ELSE LET ticket == S.tickets[id]
                 IN IF q.memberId = 0
                    THEN IF Len(ticket.skills) = 0 THEN Await(Finish(q), S, "done")
                         ELSE Await([q EXCEPT !.ticket = ticket], S, "score")
                    ELSE IF q.memberId \notin MemberIds THEN Await(Finish(q), S, "done")
                    ELSE Await([q EXCEPT !.ticket = ticket, !.member = q.memberId], S, "update")
       [] q.pc = "score" ->                       \* findBestTeamMember's select
            LET best == findBestTeamMember(S.tickets, q.ticket.skills)
            IN IF best = 0 THEN Await(Finish(q), S, "done")
               ELSE Await([q EXCEPT !.member = best], S, "update")
       [] q.pc = "update" ->                      \* update ... where id = ticketId
            Await(q, IF id \in DOMAIN S.tickets
                     THEN [S EXCEPT !.tickets[id] =
                             [@ EXCEPT !.assignedTo = q.member, !.assignedAt = now,
                                       !.status = "assigned"]]
                     ELSE S, "log")
       [] q.pc = "log" ->                         \* addActivityLog
            Await(Finish(q),
                  addActivityLog(S, id, "assigned",
                     [memberId |-> q.member, memberName |-> getTeamMember(q.member).name]),
                  "done")

\* DatabaseStorage.completeTicket, from one await to the next
completeTicketStep(q, S) ==
  LET id == q.ticketId
  IN CASE q.pc = "start" ->
            IF id \notin DOMAIN S.tickets THEN Await(Finish(q), S, "done")
            ELSE Await([q EXCEPT !.ticket = S.tickets[id]], S, "update")
       [] q.pc = "update" ->
            Await(q, IF id \in DOMAIN S.tickets
                     THEN [S EXCEPT !.tickets[id] =
                             [@ EXCEPT !.completedAt = now, !.status = "completed"]]
                     ELSE S, "log")
       [] q.pc = "log" ->
            LET completedBy == IF q.ticket.assignedTo # 0 /\ q.ticket.assignedTo \in MemberIds
                               THEN getTeamMember(q.ticket.assignedTo).name
                               ELSE "Unknown"
            IN Await(Finish(q),
                     addActivityLog(S, id, "completed",
                        [completedAt |-> now, completedBy |-> completedBy]),
                     "done")

\* DatabaseStorage.reopenTicket, from one await to the next
reopenTicketStep(q, S) ==
  LET id == q.ticketId
  IN CASE q.pc = "start" ->
            IF id \notin DOMAIN S.tickets THEN Await(Finish(q), S, "done")
            ELSE Await([q EXCEPT !.ticket = S.tickets[id]], S, "update")
       [] q.pc = "update" ->
            Await(q, IF id \in DOMAIN S.tickets
                     THEN [S EXCEPT !.tickets[id] =
                             [@ EXCEPT !.completedAt = 0,
                                       !.status = IF q.ticket.assignedTo # 0
                                                  THEN "assigned" ELSE "pending"]]
                     ELSE S, "log")
       [] q.pc = "log" ->
            Await(Finish(q),
                  addActivityLog(S, id, "reopened", [previousStatus |-> q.ticket.status]),
                  "done")

\* PATCH /api/tickets/:id and DatabaseStorage.updateTicket, from one await to
\* the next
updateTicketStep(q, S) ==
  LET id == q.ticketId
  IN CASE q.pc = "start" ->                       \* the route's getTicket
            IF id \notin DOMAIN S.tickets THEN Await(Finish(q), S, "done")
            ELSE Await(q, S, "select")
       [] q.pc = "select" ->                      \* updateTicket's select
            IF id \notin DOMAIN S.tickets THEN Await(Finish(q), S, "done")
            ELSE IF DOMAIN q.updates = {} THEN Await(Finish(q), S, "done")
            ELSE Await([q EXCEPT !.ticket = S.tickets[id]], S, "update")
       [] q.pc = "update" ->
            Await(q, IF id \in DOMAIN S.tickets
                     THEN [S EXCEPT !.tickets[id] = applyUpdates(@, q.updates)]
                     ELSE S, "log")
       [] q.pc = "log" ->
            Await(Finish(q), addActivityLog(S, id, "updated", [updates |-> q.updates]), "done")

\* DatabaseStorage.deleteTicket, from one await to the next
deleteTicketStep(q, S) ==
  LET id == q.ticketId
  IN CASE q.pc = "start" ->
            IF id \notin DOMAIN S.tickets THEN Await(Finish(q), S, "done")
            ELSE Await([q EXCEPT !.ticket = S.tickets[id]], S, "update")
       [] q.pc = "update" ->                      \* delete ... where id = id
            Await(q, [S EXCEPT !.tickets = [i \in DOMAIN @ \ {id} |-> @[i]]], "log")
       [] q.pc = "log" ->
            Await(Finish(q), addActivityLog(S, id, "deleted", [ticketId |-> id]), "done")

\* the request handled from its first read to its return with nothing in
\* between
handleRequest(S, q) ==
  CASE q.op = "assign" -> assignTicket(S, q.ticketId, q.memberId)
    [] q.op = "complete" -> completeTicket(S, q.ticketId)
    [] q.op = "reopen" -> reopenTicket(S, q.ticketId)
    [] q.op = "delete" -> deleteTicket(S, q.ticketId)
    [] q.op = "update" -> IF q.ticketId \notin DOMAIN S.tickets THEN Undefined(S)
                          ELSE updateTicket(S, q.ticketId, q.updates)

\* a handler against the database, up to its next await
databaseStep(q, S) ==
  CASE q.op = "assign" -> assignTicketStep(q, S)
    [] q.op = "complete" -> completeTicketStep(q, S)
    [] q.op = "reopen" -> reopenTicketStep(q, S)
    [] q.op = "delete" -> deleteTicketStep(q, S)
    [] q.op = "update" -> updateTicketStep(q, S)

\* a handler against MemStorage: every promise it awaits is already settled
\* (the maps are read and written synchronously), so it runs from its first
\* read to its return before the handler of another request is started
memStep(q, S) == Await(Finish(q), handleRequest(S, q).st, "done")

\* two requests arrive together
Launch(a, b) ==
  /\ inflight = <<>>
  /\ Len(activityLogs) + 2 <= MaxLogs
  /\ inflight' = <<a, b>>
  /\ snapshot' = [tickets |-> tickets, activityLogs |-> activityLogs]
  /\ last' = NoRequest
  /\ UNCHANGED <<impl, tickets, ticketCurrentId, activityLogs, now, failures>>
  /\ UNCHANGED scorerVars

\* the handler of request i runs up to its next await
StepRequest(i) ==
  /\ i \in DOMAIN inflight
  /\ inflight[i].pc # "done"
  /\ LET r == IF impl = "db" THEN databaseStep(inflight[i], Store(NoFail))
              ELSE memStep(inflight[i], Store(NoFail))
     IN /\ inflight' = [inflight EXCEPT ![i] = r.q]
        /\ tickets' = r.st.tickets
        /\ activityLogs' = r.st.activityLogs
  /\ UNCHANGED <<impl, ticketCurrentId, now, last, failures, snapshot>>
  /\ UNCHANGED scorerVars

\* requests one at a time, then two requests together: two on the same
\* ticket, or two assignments with no member named on different tickets
NextConc ==
  \/ Next
  \/ \E id \in TicketIds : \E i, j \in DOMAIN TicketRequests(id) :
       i <= j /\ Launch(TicketRequests(id)[i], TicketRequests(id)[j])
  \/ \E id1, id2 \in TicketIds :
       id1 < id2 /\ Launch(Request("assign", id1, 0, <<>>), Request("assign", id2, 0, <<>>))
  \/ \E i \in 1..2 : StepRequest(i)

SpecConc == Init /\ [][NextConc]_vars

(* ------------------------------ claims -------------------------------- *)

\* the activity-log rows of one ticket
LogCount(logs, id) == Cardinality({ k \in 1..Len(logs) : logs[k].ticketId = id })

\* the row of ticket id differs between two tables (created, removed or changed)
RowChanged(tk1, tk2, id) ==
  \/ (id \in DOMAIN tk1) # (id \in DOMAIN tk2)
  \/ id \in DOMAIN tk1 /\ id \in DOMAIN tk2 /\ tk1[id] # tk2[id]

SharesSkill(memberId, skills) ==
  Range(getTeamMember(memberId).skills) \cap Range(skills) # {}

\* C1: every stored ticket whose status is "pending" has assignedTo unset
C1_PendingHasNoAssignee ==
  \A i \in DOMAIN tickets : tickets[i].status = "pending" => tickets[i].assignedTo = 0

\* C2: every stored ticket whose status is "assigned" has assignedTo and
\* assignedAt set
C2_AssignedHasAssigneeAndTime ==
  \A i \in DOMAIN tickets :
    tickets[i].status = "assigned" => tickets[i].assignedTo # 0 /\ tickets[i].assignedAt # 0

\* C3: every stored ticket whose status is "completed" has completedAt set
C3_CompletedHasCompletedAt ==
  \A i \in DOMAIN tickets : tickets[i].status = "completed" => tickets[i].completedAt # 0

\* a ticket was completed, assigned again and completed again, and is stored
C3_Witness ==
  /\ last.op = "complete" /\ last.ret.kind = "ticket"
  /\ last.ticketId \in DOMAIN tickets
  /\ tickets[last.ticketId].status = "completed"
  /\ LogCount(activityLogs, last.ticketId) >= 3

\* the storage calls of the last request that changed the ticket: POST
\* /api/tickets without an assignee calls createTicket and then assignTicket
CallsThatChanged(tk2, rq) ==
  IF rq.op = "create" /\ rq.memberId = 0 /\ tk2[rq.ticketId].status = "assigned" THEN 2 ELSE 1

\* C4 (as claimed): every storage call that changes the ticket's visible state
\* appends exactly one activity-log row for that ticket, createTicket with an
\* explicit assignee included
C4_OneLogPerCall ==
  [][ (last'.ret.kind # "raised" /\ RowChanged(tickets, tickets', last'.ticketId))
        => LogCount(activityLogs', last'.ticketId)
             = LogCount(activityLogs, last'.ticketId) + CallsThatChanged(tickets', last') ]_vars

\* C4 (amended): every storage call that changes the ticket's visible state
\* appends exactly one activity-log row for that ticket, except createTicket
\* with an assignedTo that is an existing member, which appends two (created,
\* then assigned)
C4_OneLogPerCallTwoOnAssignedCreate ==
  [][ (last'.ret.kind # "raised" /\ RowChanged(tickets, tickets', last'.ticketId))
        => LogCount(activityLogs', last'.ticketId)
             = LogCount(activityLogs, last'.ticketId)
               + (IF last'.op = "create" /\ last'.memberId \in MemberIds
                  THEN 2 ELSE CallsThatChanged(tickets', last')) ]_vars

\* a ticket has just been created with an existing member as assignee and has
\* two log rows, created then assigned
C4_Witness ==
  /\ last.op = "create" /\ last.memberId \in MemberIds /\ last.ret.kind = "ticket"
  /\ LogCount(activityLogs, last.ticketId) = 2
  /\ activityLogs[Len(activityLogs) - 1].action = "created"
  /\ activityLogs[Len(activityLogs)].action = "assigned"

\* C5: after a request in which a persistence write raised, the ticket row is
\* changed (created, removed or updated) exactly if a log row was appended
\* for it
C5_StateAndLogTogether ==
  [][ last'.ret.kind = "raised"
        => (RowChanged(tickets, tickets', last'.ticketId)
              <=> LogCount(activityLogs', last'.ticketId) # LogCount(activityLogs, last'.ticketId)) ]_vars

\* C6: the workload findBestTeamMember uses for a member is the number of
\* stored tickets assigned to that member whose status is not "completed"
C6_WorkloadCountsActiveTickets ==
  \A m \in MemberIds :
    assignedTicketCount(tickets)[m]
      = Cardinality({ i \in DOMAIN tickets :
                        tickets[i].assignedTo = m /\ tickets[i].status # "completed" })

\* positions, in enumeration order, of the members the scorer considered
Candidates == { i \in 1..Len(getTeamMembers) : matchCounts[getTeamMembers[i].id] > 0 }

\* score of the member at position i >= score of the member at position j
ScoreAtLeast(i, j) ==
  LET a == getTeamMembers[i].id
      b == getTeamMembers[j].id
  IN matchCounts[a] * (workloads[b] + 1) >= matchCounts[b] * (workloads[a] + 1)

Maximal == { i \in Candidates : \A j \in Candidates : ScoreAtLeast(i, j) }

\* C7: for a non-empty required-skills list the scorer returns the first
\* member, in enumeration order, whose score matchCount / (workload + 1) is
\* maximal among the members with matchCount > 0; of two members with equal
\* matchCount the one with the higher workload is never returned
C7_BestIsFirstMaximal ==
  (bestMember # -1 /\ Len(requiredSkills) > 0 /\ Candidates # {})
    => /\ bestMember = getTeamMembers[CHOOSE i \in Maximal : \A j \in Maximal : i <= j].id
       /\ \A i, j \in Candidates :
            (matchCounts[getTeamMembers[i].id] = matchCounts[getTeamMembers[j].id]
               /\ workloads[getTeamMembers[i].id] < workloads[getTeamMembers[j].id])
              => bestMember # getTeamMembers[j].id

\* C8: the matchCount the scorer uses for a member is the size of the set
\* intersection of the member's skills and the required skills
C8_MatchCountIsIntersection ==
  bestMember # -1
    => \A m \in MemberIds :
         matchCounts[m]
           = Cardinality(Range(getTeamMember(m).skills) \cap Range(requiredSkills))

\* no member has any of the skills (or there are none)
NoEligibleMember(skills) ==
  Len(skills) = 0 \/ \A m \in MemberIds : ~SharesSkill(m, skills)

\* C9: assignTicket without memberId on a ticket whose required skills are
\* empty or held by no member returns the ticket unchanged and appends no log
\* row (a ticket created that way stays pending without assignee, with its
\* "created" row only), and a member it does assign shares a skill with the
\* ticket
C9_AutoAssignNeedsSharedSkill ==
  [][ /\ (last'.op = "assign" /\ last'.memberId = 0 /\ last'.ticketId \in DOMAIN tickets)
          => LET t == tickets[last'.ticketId]
             IN /\ NoEligibleMember(t.skills)
                     => /\ tickets' = tickets
                        /\ activityLogs' = activityLogs
                        /\ last'.ret = [kind |-> "ticket", ticket |-> t]
                /\ activityLogs' # activityLogs
                     => /\ tickets'[last'.ticketId].assignedTo \in MemberIds
                        /\ SharesSkill(tickets'[last'.ticketId].assignedTo, t.skills)
      /\ (last'.op = "create" /\ last'.memberId = 0 /\ last'.ret.kind = "ticket"
            /\ NoEligibleMember(last'.skills))
          => /\ tickets'[last'.ticketId].status = "pending"
             /\ tickets'[last'.ticketId].assignedTo = 0
             /\ Len(activityLogs') = Len(activityLogs) + 1 ]_vars

\* an auto-assign request has just returned a pending ticket whose only
\* required skill no member has
C9_Witness ==
  /\ last.op = "assign" /\ last.memberId = 0 /\ last.ret.kind = "ticket"
  /\ last.ret.ticket.skills = <<"DevOps">>
  /\ last.ret.ticket.status = "pending" /\ last.ret.ticket.assignedTo = 0
  /\ tickets[last.ticketId] = last.ret.ticket

\* C10: the first ticket of the freshly seeded system, posted with skills
\* [Backend, Database] and no assignee, is assigned to Jane Smith (id 2)
C10_FirstBackendDatabaseTicketGoesToJane ==
  (last.op = "create" /\ last.ticketId = 1 /\ last.memberId = 0
     /\ last.skills = <<"Backend", "Database">>)
    => /\ last.ret.kind = "ticket"
       /\ last.ret.ticket.status = "assigned"
       /\ last.ret.ticket.assignedTo = 2
       /\ getTeamMember(2).name = "Jane Smith"
       /\ tickets[1] = last.ret.ticket

\* that ticket has just been posted and is stored as assigned
C10_Witness ==
  /\ last.op = "create" /\ last.ticketId = 1 /\ last.memberId = 0
  /\ last.skills = <<"Backend", "Database">>
  /\ tickets[1].status = "assigned"
  /\ activityLogs[Len(activityLogs)].action = "assigned"

\* every number of writes a request may be left with before one raises
AnyFuel == (0..MaxFailAt) \cup {NoFail}

\* ids that are not in the tickets table: deleted, or never created
AbsentIds == TicketIds \ DOMAIN tickets

\* C11: on a ticket id that is not in the active ticket set (never created or
\* already deleted) updateTicket, assignTicket, completeTicket and
\* reopenTicket return undefined and deleteTicket returns false; none raises,
\* whatever would happen to a write, and each leaves the tickets and the
\* activity log as they are
C11_AbsentTicketIsNoOp ==
  \A id \in AbsentIds, k \in AnyFuel :
    LET S == Store(k)
    IN /\ \A u \in Updates : updateTicket(S, id, u) = Undefined(S)
       /\ \A m \in RequestMemberIds : assignTicket(S, id, m) = Undefined(S)
       /\ completeTicket(S, id) = Undefined(S)
       /\ reopenTicket(S, id) = Undefined(S)
       /\ deleteTicket(S, id) = [st |-> S, ret |-> [kind |-> "false", ticket |-> NoTicket]]

\* a request on a deleted ticket has just been answered "not found" while
\* another id was never created
C11_Witness ==
  /\ last.op \in {"assign", "complete", "reopen", "delete"}
  /\ last.ticketId \in AbsentIds /\ last.ticketId < ticketCurrentId
  /\ last.ret.kind \in {"undefined", "false"}
  /\ \E id \in AbsentIds : id >= ticketCurrentId

\* the last activity-log row
LastLog(logs) == logs[Len(logs)]

\* the action of the row before the last of the rows of one ticket, "" if
\* there is none
PreviousAction(logs, id) ==
  LET rows == SelectSeq(logs, LAMBDA row : row.ticketId = id)
  IN IF Len(rows) < 2 THEN "" ELSE rows[Len(rows) - 1].action

\* C12: assignTicket on an existing ticket with a memberId that resolves to
\* no team member returns the ticket as it is: the row (status, assignedTo
\* and assignedAt included) is unchanged and no log row is appended
C12_UnknownMemberLeavesTicket ==
  [][ (last'.op = "assign" /\ last'.memberId # 0 /\ last'.memberId \notin MemberIds
         /\ last'.ticketId \in DOMAIN tickets)
        => /\ tickets' = tickets
           /\ activityLogs' = activityLogs
           /\ last'.ret = [kind |-> "ticket", ticket |-> tickets[last'.ticketId]] ]_vars

\* an assigned ticket has just been returned by an assign request that named
\* an unknown member, and still has its assignee
C12_Witness ==
  /\ last.op = "assign" /\ last.memberId = UnknownMember /\ last.ret.kind = "ticket"
  /\ last.ret.ticket.status = "assigned" /\ last.ret.ticket.assignedTo \in MemberIds
  /\ tickets[last.ticketId] = last.ret.ticket
  /\ LastLog(activityLogs).action = "assigned"

\* C13: assignTicket on an existing ticket with the id of an existing member
\* succeeds from every prior status: the row becomes "assigned" with
\* assignedTo that member (whatever it was) and assignedAt the current time,
\* and an "assigned" log row naming the member is appended
C13_AssignSucceedsFromAnyStatus ==
  [][ (last'.op = "assign" /\ last'.memberId \in MemberIds
         /\ last'.ticketId \in DOMAIN tickets)
        => /\ tickets' = [tickets EXCEPT ![last'.ticketId] =
                            [@ EXCEPT !.status = "assigned", !.assignedTo = last'.memberId,
                                      !.assignedAt = now]]
           /\ tickets'[last'.ticketId].assignedAt # 0
           /\ last'.ret = [kind |-> "ticket", ticket |-> tickets'[last'.ticketId]]
           /\ Len(activityLogs') = Len(activityLogs) + 1
           /\ SubSeq(activityLogs', 1, Len(activityLogs)) = activityLogs
           /\ LastLog(activityLogs').ticketId = last'.ticketId
           /\ LastLog(activityLogs').action = "assigned"
           /\ LastLog(activityLogs').details
                = [memberId |-> last'.memberId,
                   memberName |-> getTeamMember(last'.memberId).name] ]_vars

\* a completed ticket has just been assigned to Jane Smith
C13_Witness ==
  /\ last.op = "assign" /\ last.memberId = 2 /\ last.ret.kind = "ticket"
  /\ PreviousAction(activityLogs, last.ticketId) = "completed"
  /\ tickets[last.ticketId].status = "assigned" /\ tickets[last.ticketId].assignedTo = 2
  /\ tickets[last.ticketId].completedAt # 0

\* C14: the ticket createTicket returns for a request that supplies a member
\* id is assigned to exactly that member; the one it returns for a request
\* that supplies none is pending without assignee (the handler consults the
\* scorer afterwards only when the request carries skills)
C14_CreateAssignsSuppliedMember ==
  (last.op = "create" /\ last.ret.kind = "ticket")
    => /\ last.memberId # 0
            => /\ last.ret.ticket.status = "assigned"
               /\ last.ret.ticket.assignedTo = last.memberId
       /\ (last.memberId = 0 /\ Len(last.skills) = 0)
            => /\ last.ret.ticket.status = "pending"
               /\ last.ret.ticket.assignedTo = 0

\* C15: completeTicket on an existing ticket succeeds from every status, a
\* pending ticket without assignee included: the row becomes "completed"
\* with completedAt the current time, and the appended "completed" row has
\* completedBy "Unknown" when the ticket had no assignee and the name of the
\* assigned member when it had one
C15_CompleteSucceedsFromAnyStatus ==
  [][ (last'.op = "complete" /\ last'.ticketId \in DOMAIN tickets)
        => LET t == tickets[last'.ticketId]
           IN /\ tickets' = [tickets EXCEPT ![last'.ticketId] =
                               [@ EXCEPT !.status = "completed", !.completedAt = now]]
              /\ tickets'[last'.ticketId].completedAt # 0
              /\ last'.ret = [kind |-> "ticket", ticket |-> tickets'[last'.ticketId]]
              /\ Len(activityLogs') = Len(activityLogs) + 1
              /\ SubSeq(activityLogs', 1, Len(activityLogs)) = activityLogs
              /\ LastLog(activityLogs').ticketId = last'.ticketId
              /\ LastLog(activityLogs').action = "completed"
              /\ t.assignedTo = 0
                   => LastLog(activityLogs').details.completedBy = "Unknown"
              /\ t.assignedTo \in MemberIds
                   => LastLog(activityLogs').details.completedBy
                        = getTeamMember(t.assignedTo).name ]_vars

\* a ticket that was created without assignee and never assigned has just
\* been completed by "Unknown"
C15_Witness ==
  /\ last.op = "complete" /\ last.ret.kind = "ticket"
  /\ PreviousAction(activityLogs, last.ticketId) = "created"
  /\ tickets[last.ticketId].status = "completed"
  /\ tickets[last.ticketId].assignedTo = 0
  /\ tickets[last.ticketId].completedAt # 0
  /\ LastLog(activityLogs).action = "completed"
  /\ LastLog(activityLogs).details.completedBy = "Unknown"

\* the store a request has left behind, every later write succeeding
StoreAfter == [tickets |-> tickets', ticketCurrentId |-> ticketCurrentId',
               activityLogs |-> activityLogs', fuel |-> NoFail, raised |-> FALSE]

\* the ticket state reopenTicket is said to be idempotent on
TicketState(t) == [status |-> t.status, assignedTo |-> t.assignedTo,
                   completedAt |-> t.completedAt]

\* C16: reopenTicket on an existing ticket in any status unsets completedAt
\* and sets the status to "assigned" if assignedTo is set, else to "pending",
\* and a further reopenTicket leaves status, assignedTo and completedAt as
\* the first call left them
C16_ReopenIsIdempotent ==
  [][ (last'.op = "reopen" /\ last'.ticketId \in DOMAIN tickets)
        => LET id == last'.ticketId
               again == reopenTicket(StoreAfter, id)
           IN /\ tickets' = [tickets EXCEPT ![id] =
                               [@ EXCEPT !.completedAt = 0,
                                         !.status = IF tickets[id].assignedTo # 0
                                                    THEN "assigned" ELSE "pending"]]
              /\ last'.ret = [kind |-> "ticket", ticket |-> tickets'[id]]
              /\ again.ret.kind = "ticket"
              /\ TicketState(again.ret.ticket) = TicketState(tickets'[id])
              /\ TicketState(again.st.tickets[id]) = TicketState(tickets'[id])
              /\ tickets[id].status # "completed" /\ tickets[id].completedAt = 0
                   /\ (tickets[id].status = "assigned") = (tickets[id].assignedTo # 0)
                   => TicketState(tickets'[id]) = TicketState(tickets[id]) ]_vars

\* a completed ticket with assignedTo set has just been reopened and is
\* assigned, completedAt unset
C16_Witness ==
  /\ last.op = "reopen" /\ last.ret.kind = "ticket"
  /\ PreviousAction(activityLogs, last.ticketId) = "completed"
  /\ LastLog(activityLogs).action = "reopened"
  /\ LastLog(activityLogs).details.previousStatus = "completed"
  /\ tickets[last.ticketId].status = "assigned"
  /\ tickets[last.ticketId].assignedTo # 0
  /\ tickets[last.ticketId].completedAt = 0

\* C17: deleteTicket on an existing ticket removes it from the active set
\* (getTicket and getTickets no longer return it, the other tickets stay) and
\* returns true; a second deleteTicket on the same id returns false, changes
\* nothing and appends no log row
C17_DeleteThenDeleteAgain ==
  [][ (last'.op = "delete" /\ last'.ticketId \in DOMAIN tickets)
        => LET id == last'.ticketId
               second == deleteTicket(StoreAfter, id)
           IN /\ last'.ret.kind = "true"
              /\ getTicket(tickets', id) = NoTicket
              /\ \A t \in getTickets(tickets') : t.id # id
              /\ getTickets(tickets') = getTickets(tickets) \ {tickets[id]}
              /\ second.ret.kind = "false"
              /\ second.st = StoreAfter ]_vars

\* a second delete request for a deleted ticket has just been answered
\* false, the log holding the one "deleted" row of the first
C17_Witness ==
  /\ last.op = "delete" /\ last.ret.kind = "false"
  /\ last.ticketId \notin DOMAIN tickets
  /\ Len(activityLogs) > 0
  /\ LastLog(activityLogs).action = "deleted"
  /\ LastLog(activityLogs).ticketId = last.ticketId
  /\ Cardinality({ k \in 1..Len(activityLogs) :
                     activityLogs[k].ticketId = last.ticketId
                       /\ activityLogs[k].action = "deleted" }) = 1

\* the ids of the tickets that were created and are no longer stored
DeletedIds == (1..(ticketCurrentId - 1)) \ DOMAIN tickets

\* C18: in no reachable state, one left by a failure between the two steps of
\* deleteTicket included, has a ticket been removed from the active set
\* while its "deleted" log row does not exist
C18_DeletedLogBeforeRemoval ==
  \A id \in DeletedIds :
    \E k \in 1..Len(activityLogs) :
      activityLogs[k].ticketId = id /\ activityLogs[k].action = "deleted"

\* C19: the activity log is append-only: every row of a state is, unchanged
\* (id, ticketId, action, timestamp, details), a row of the next state and so
\* of every later one; deleting a ticket removes none of its earlier rows,
\* and getActivityLogs still returns them
C19_LogIsAppendOnly ==
  [][ /\ Len(activityLogs') >= Len(activityLogs)
      /\ SubSeq(activityLogs', 1, Len(activityLogs)) = activityLogs
      /\ (last'.op = "delete" /\ last'.ticketId \in DOMAIN tickets)
           => \A k \in 1..Len(activityLogs) :
                activityLogs[k].ticketId = last'.ticketId
                  => activityLogs[k] \in Range(getActivityLogs(activityLogs', last'.ticketId)) ]_vars

\* a ticket has just been deleted and getActivityLogs returns its three rows,
\* "deleted" and the two before it, "created" among them
C19_Witness ==
  /\ last.op = "delete" /\ last.ret.kind = "true"
  /\ last.ticketId \in DeletedIds
  /\ Len(getActivityLogs(activityLogs, last.ticketId)) = 3
  /\ \E row \in Range(getActivityLogs(activityLogs, last.ticketId)) : row.action = "created"
  /\ \E row \in Range(getActivityLogs(activityLogs, last.ticketId)) : row.action = "deleted"

\* C20: every activity-log row appended for a ticket has a timestamp later
\* than that of every row appended for the same ticket before it, the two
\* rows of one createTicket with an assignee and the rows of requests handled
\* within one clock tick included
C20_TimestampsStrictlyLater ==
  \A j, k \in 1..Len(activityLogs) :
    (j < k /\ activityLogs[j].ticketId = activityLogs[k].ticketId)
      => activityLogs[j].timestamp < activityLogs[k].timestamp

\* the rows of one ticket, the one appended last first
NewestAppendedFirst(logs, id) ==
  LET rows == SelectSeq(logs, LAMBDA log : log.ticketId = id)
  IN [ i \in 1..Len(rows) |-> rows[Len(rows) + 1 - i] ]

\* C21: getActivityLogs(ticketId) returns exactly the rows of that ticket, the
\* most recently appended first, however close together they were appended
C21_LogsNewestAppendedFirst ==
  \A id \in TicketIds :
    \A result \in getActivityLogsOrders(activityLogs, id) :
      result = NewestAppendedFirst(activityLogs, id)

\* C22: completedAt is set only while the ticket is completed: every stored
\* ticket whose status is "pending" or "assigned" has completedAt unset
C22_CompletedAtOnlyWhileCompleted ==
  \A i \in DOMAIN tickets :
    tickets[i].status \in {"pending", "assigned"} => tickets[i].completedAt = 0

\* C23: once a "deleted" row is appended for a ticket id, it stays the final
\* row for that id: no later row of the log carries that ticketId
C23_DeletedRowStaysLast ==
  \A i \in 1..Len(activityLogs) :
    activityLogs[i].action = "deleted" =>
      \A j \in (i + 1)..Len(activityLogs) :
        activityLogs[j].ticketId # activityLogs[i].ticketId

\* the storage operation of request q has made its first read of the ticket
\* and has not yet appended its log row
InOperation(q) == q.pc \in {"score", "update", "log"}

\* C24: mutating operations execute one at a time: no operation reads or
\* writes the tickets or the log while another operation is between its
\* first read of the ticket and its log append
C24_OneOperationAtATime ==
  \A i, j \in DOMAIN inflight :
    (i # j /\ InOperation(inflight[i])) => ~InOperation(inflight[j])

\* C25: the id and createdAt of a ticket never change after creation: no
\* request changes them on a ticket stored before and after it
C25_IdAndCreatedAtNeverChange ==
  [][\A i \in DOMAIN tickets \cap DOMAIN tickets' :
       /\ tickets[i].id = i
       /\ tickets'[i].id = tickets[i].id
       /\ tickets'[i].createdAt = tickets[i].createdAt]_vars

\* an accepted PATCH has just changed a stored ticket whose status is assigned
C25_Witness ==
  /\ last.op = "update"
  /\ last.ret.kind = "ticket"
  /\ last.ticketId \in DOMAIN tickets
  /\ DOMAIN last.updates # {}
  /\ tickets[last.ticketId].status = "assigned"

\* C26: the Reassign button (assignTicket with no memberId on a ticket whose
\* status is "assigned") leaves the ticket assigned to a different member
\* than before
C26_ReassignPicksAnotherMember ==
  [][(/\ last'.op = "assign"
      /\ last'.memberId = 0
      /\ last'.ticketId \in DOMAIN tickets
      /\ tickets[last'.ticketId].status = "assigned")
       => /\ last'.ticketId \in DOMAIN tickets'
          /\ tickets'[last'.ticketId].assignedTo # tickets[last'.ticketId].assignedTo]_vars

\* the tables as they were when the two requests arrived
SnapshotStore ==
  [Store(NoFail) EXCEPT !.tickets = snapshot.tickets,
                        !.activityLogs = snapshot.activityLogs]

\* the rows of one ticket in the order they were appended, without their
\* serial ids
TicketLog(logs, id) ==
  LET rows == SelectSeq(logs, LAMBDA log : log.ticketId = id)
  IN [i \in 1..Len(rows) |-> [action |-> rows[i].action, details |-> rows[i].details]]

\* the ticket set and the per-ticket log sequences of a store
Outcome(S) ==
  [tickets |-> S.tickets, logs |-> [id \in TicketIds |-> TicketLog(S.activityLogs, id)]]

\* request a handled to its end, then request b
SerialOutcome(a, b) ==
  Outcome(handleRequest(handleRequest(SnapshotStore, a).st, b).st)

BothDone == Len(inflight) = 2 /\ inflight[1].pc = "done" /\ inflight[2].pc = "done"

\* C27: two mutating operations whose steps interleave end in the ticket set
\* and per-ticket log sequences of one of their two serial orders
C27_InterleavingIsSerializable ==
  BothDone =>
    Outcome(Store(NoFail)) \in { SerialOutcome(inflight[1], inflight[2]),
                                 SerialOutcome(inflight[2], inflight[1]) }

\* C28: the assignedTo of a stored ticket, when set, is the id of an existing
\* team member
C28_AssignedToIsAMember ==
  \A i \in DOMAIN tickets :
    tickets[i].assignedTo # 0 => tickets[i].assignedTo \in MemberIds

\* C29: completeTicket followed immediately by reopenTicket on the same
\* existing ticket is a round trip on the assignment state: completeTicket
\* leaves assignedTo and assignedAt, and after the pair the ticket has the
\* assignedTo and assignedAt it had before, completedAt unset, and status
\* "assigned" if it had an assignee, else "pending"
C29_CompleteThenReopenKeepsAssignment ==
  [][ (last'.op = "complete" /\ last'.ticketId \in DOMAIN tickets)
        => LET id == last'.ticketId
               before == tickets[id]
               reopened == reopenTicket(StoreAfter, id)
           IN /\ id \in DOMAIN tickets'
              /\ tickets'[id].assignedTo = before.assignedTo
              /\ tickets'[id].assignedAt = before.assignedAt
              /\ reopened.ret.kind = "ticket"
              /\ reopened.st.tickets[id] =
                   [before EXCEPT !.completedAt = 0,
                                  !.status = IF before.assignedTo # 0
                                             THEN "assigned" ELSE "pending"]
              /\ reopened.ret.ticket = reopened.st.tickets[id] ]_vars

\* a ticket nobody was assigned to has been completed and then reopened at
\* once: it is pending again, with no assignee and no completedAt
C29_Witness ==
  /\ last.op = "reopen" /\ last.ret.kind = "ticket"
  /\ PreviousAction(activityLogs, last.ticketId) = "completed"
  /\ LastLog(activityLogs).ticketId = last.ticketId
  /\ LastLog(activityLogs).action = "reopened"
  /\ activityLogs[Len(activityLogs) - 1].action = "completed"
  /\ activityLogs[Len(activityLogs) - 1].ticketId = last.ticketId
  /\ tickets[last.ticketId].status = "pending"
  /\ tickets[last.ticketId].assignedTo = 0
  /\ tickets[last.ticketId].assignedAt = 0
  /\ tickets[last.ticketId].completedAt = 0

\* the action of the most recently appended row of one ticket among the rows
\* that record a status change, "" if there is none
LastStatusAction(logs, id) ==
  LET rows == SelectSeq(logs, LAMBDA row :
                 row.ticketId = id
                   /\ row.action \in {"created", "assigned", "completed", "reopened"})
  IN IF Len(rows) = 0 THEN "" ELSE rows[Len(rows)].action

\* C30: with operations run one at a time the log agrees with the ticket
\* state: a stored ticket is completed exactly when the most recent of its
\* created / assigned / completed / reopened rows is "completed", and it is
\* assigned when that row is "assigned"
C30_LogAgreesWithStatus ==
  \A i \in DOMAIN tickets :
    /\ (tickets[i].status = "completed") = (LastStatusAction(activityLogs, i) = "completed")
    /\ LastStatusAction(activityLogs, i) = "assigned" => tickets[i].status = "assigned"

====
